---- MODULE Spec2Model ----
(***************************************************************************)
(* Batch-generation coordination in Camier/dalle2_cli.                     *)
(*                                                                         *)
(* The repository holds several independent re-implementations of the same *)
(* pattern; each is modelled from its own source and a behaviour of Spec   *)
(* is a run of one of them (variable sys, fixed by Init):                  *)
(*   "wp"   dalle_workers.py      WorkerPool (thread pool, retry by        *)
(*                                re-queue)                                *)
(*   "mgr"  core/dalle_api.py     DALLEAPIManager (asyncio queue + worker  *)
(*                                loops)                                   *)
(*   "en"   dalle_cli_enhanced.py generate_image_batch (batch splitting)   *)
(*   "v2"   dalle_cli_v2.py       ImageGenerator.generate_batch            *)
(*   "gui"  gui/widgets/batch_tab.py  BatchTab (batch thread + Tk queue)   *)
(*   "st"   core/dalle_api_v2.py  EnhancedImageGenerator.generate_stream   *)
(*   "vb"   dalle_cli_v2.py       batch / _batch_async (chunks)            *)
(*   "qg"   dalle_cli_enhanced.py quick_generate                           *)
(*   "ul"   dalle_cli_ultra.py    generate / generate_single /             *)
(*                                SmartErrorHandler                        *)
(*   "ca"   core/dalle_api_v2.py  generate_with_retry and its cache        *)
(*   "bp"   core/dalle_api_v2.py  BatchProcessor.wait_for_completion       *)
(***************************************************************************)
EXTENDS Integers, Sequences, FiniteSets, TLC

\* ------------------------------------------------------------------ bounds
NumTasks == 2        \* tasks handed to WorkerPool.submit_task
NumWorkers == 2      \* WorkerPool.num_workers
MaxRetries == 1      \* WorkerTask.max_retries of the submitted tasks
MaxRuns == 2         \* calls of WorkerPool.process_tasks_async
MgrWorkers == 2      \* DALLEAPIManager.max_workers
MaxStarts == 2       \* calls of DALLEAPIManager.start
MaxReqs == 3         \* requests handed to DALLEAPIManager.*_async
MaxImages == 9       \* largest image count asked of generate_image_batch
MaxPrompts == 3      \* prompts handed to ImageGenerator.generate_batch
NumJobs == 2         \* jobs added to the GUI batch list
MaxThreads == 2      \* batch threads the GUI starts
MaxStream == 3       \* prompts handed to generate_stream
MaxConcurrent == 2   \* max_concurrent of generate_stream
MaxBatchConcurrent == 2  \* largest --concurrent of the batch command
MaxGenerates == 2    \* calls of generate, the handler's retry included
NumCacheKeys == 2    \* distinct requests handed to generate_with_retry
MaxGens == 3         \* calls of generate_with_retry
MaxPolls == 4        \* polls of wait_for_completion that are counted

\* ---------------------------------------------------------------- constants
RetryAttempts == 3   \* Config.RETRY_ATTEMPTS
StopAfterAttempt == 3  \* stop_after_attempt(3) of generate_with_retry

Systems == {"wp", "mgr", "en", "v2", "gui", "st", "vb", "qg", "ul", "ca", "bp"}

VARIABLES
    sys,            \* which program this behaviour runs
    \* ---- dalle_workers.py WorkerPool
    wpPc,           \* caller position: idle | submit | wait | done | raised
    wpStarted,      \* start() was called (worker_stats initialised)
    wpShutdown,     \* stop() was called (executor shut down)
    wpSubmitted,    \* task ids handed to submit_task by the caller
    wpKind,         \* per task: the exception its payload makes the backend raise
    wpQueue,        \* task_queue: task ids, lowest priority value first
    wpRetry,        \* task.retry_count
    wpFutures,      \* futures given to the executor, oldest first
    wpRunStart,     \* number of futures that belong to earlier runs
    wpWaitIdx,      \* position of the wait loop in wpFutures
    wpTimeout,      \* the run was called with a timeout
    wpExpired,      \* the run's timeout has elapsed
    wpResults,      \* results list of the current run
    wpHanded,       \* per task: results returned to the caller so far
    wpActive,       \* keys of active_tasks
    wpCompleted,    \* completed_tasks
    wpRuns,         \* number of process_tasks_async calls so far
    wpId,           \* per task: the i of its id gen_i, -1 for a caller's own task
    wpProgress,     \* completed value of generate_batch's progress bar
    \* ---- core/dalle_api.py DALLEAPIManager
    mgrRunning,     \* _running
    mgrStarts,      \* number of start() calls; _worker_tasks are the last one's
    mgrEnq,         \* number of requests enqueued so far
    mgrReq,         \* per request: unused | cb | cb_raises | nocb
    mgrQueue,       \* task_queue (FIFO)
    mgrLoop,        \* per _worker_loop task: position and request in hand
    mgrCalls,       \* requests whose _sync_* call runs in an executor thread
    mgrCb,          \* per request: callback invocations, with the result
    mgrStopping,    \* a stop() call is awaiting its gather
    \* ---- dalle_cli_enhanced.py generate_image_batch
    enPc,           \* idle | loop | done
    enModel,        \* "dall-e-2" | "dall-e-3"
    enN,            \* num_images
    enBatchNum,     \* batch_num of the next iteration
    enImageCount,   \* image_count
    enCalls,        \* images.generate calls issued: n asked and outcome
    enAllImages,    \* all_images: numbers of the image files saved
    \* ---- dalle_cli_v2.py ImageGenerator.generate_batch
    v2Pc,           \* idle | run | done
    v2N,            \* len(prompts)
    v2Pending,      \* positions of the generate_single calls still running
    v2Results,      \* results, in the order appended
    v2Progress,     \* the counts progress_callback was called with
    \* ---- gui/widgets/batch_tab.py BatchTab
    guiJobs,        \* per job: none (not added) or BatchJob.status
    guiRunning,     \* batch_running
    guiStartBtn,    \* start_btn is enabled
    guiStopBtn,     \* stop_btn is enabled
    guiThreads,     \* per batch thread: position, jobs, loop variables
    guiUi,          \* callbacks handed to Tk's after(0, ...), oldest first
    guiApiPut,      \* jobs whose request was put on api_manager.task_queue
    guiShown,       \* what BatchProgressFrame displays
    \* ---- core/dalle_api_v2.py EnhancedImageGenerator.generate_stream
    stPc,           \* idle | run | done
    stN,            \* len(prompts)
    stTask,         \* per prompt position: none | waiting | calling | done
    stYielded,      \* results yielded so far, in order
    \* ---- dalle_cli_v2.py batch command (batch, _batch_async)
    vbPc,           \* idle | confirm | loop | chunk | done
    vbN,            \* len(prompts) read from the prompts file
    vbConcurrent,   \* --concurrent
    vbI,            \* loop variable i of range(0, len(prompts), batch_size)
    vbInFlight,     \* prompts of the chunk whose generate_single is running
    vbResults,      \* results of the chunk's generate_batch, as appended
    vbAll,          \* all_results
    vbBackend,      \* images.generate calls made
    vbProgressed,   \* positions progress.update(task, completed=...) was given
    vbOutcome,      \* none | no_prompts | declined | ValueError | summary
    \* ---- dalle_cli_enhanced.py EnhancedDalleCLI.quick_generate
    qgPc,           \* idle | loop | done
    qgBatch,        \* loop variable batch of range(3)
    qgSaved,        \* idx of the image_{idx}.png files written
    qgErrors,       \* batches whose exception was printed
    qgReported,     \* the number in the final "Generated ... images" line
    \* ---- dalle_cli_ultra.py generate / generate_single / SmartErrorHandler
    ulPc,           \* idle | try | sleep | returned | raised | ended
    ulRuns,         \* calls of generate (the retry of the handler included)
    ulAttempt,      \* loop variable attempt of generate_single
    ulCalls,        \* client.images.generate calls of this generate_single
    ulDelays,       \* the time.sleep arguments of this generate_single
    ulMsg,          \* words found in str(e).lower() of the error raised
    ulHelp,         \* last show_error_help: classification, return value
    \* ---- core/dalle_api_v2.py EnhancedImageGenerator.generate_with_retry
    caPc,           \* new | idle | lookup | backend
    caEnabled,      \* cache_enabled
    caGens,         \* calls of generate_with_retry so far
    caKey,          \* cache key of the call in progress
    caAttempt,      \* attempt number of the retry decorator (1-based)
    caCache,        \* per key: the cache file (none, or age and content)
    caBackend,      \* client.images.generate calls made so far
    caLast,         \* how the last call ended, and what it returned
    \* ---- core/dalle_api_v2.py BatchProcessor.wait_for_completion
    bpPc,           \* idle | poll | sleep | returned | raised
    bpCallback,     \* a callback was passed
    bpRemote,       \* status of the remote batch job
    bpPolls,        \* get_batch_status calls (counted up to MaxPolls)
    bpCalls,        \* callback invocations (counted up to MaxPolls)
    bpLast          \* status of the job polled last

wpVars == <<wpPc, wpStarted, wpShutdown, wpSubmitted, wpKind, wpQueue, wpRetry,
            wpFutures, wpRunStart, wpWaitIdx, wpTimeout, wpExpired, wpResults,
            wpHanded, wpActive, wpCompleted, wpRuns, wpId, wpProgress>>

mgrVars == <<mgrRunning, mgrStarts, mgrEnq, mgrReq, mgrQueue, mgrLoop,
             mgrCalls, mgrCb, mgrStopping>>

enVars == <<enPc, enModel, enN, enBatchNum, enImageCount, enCalls,
            enAllImages>>

v2Vars == <<v2Pc, v2N, v2Pending, v2Results, v2Progress>>

guiVars == <<guiJobs, guiRunning, guiStartBtn, guiStopBtn, guiThreads, guiUi,
             guiApiPut, guiShown>>

stVars == <<stPc, stN, stTask, stYielded>>

vbVars == <<vbPc, vbN, vbConcurrent, vbI, vbInFlight, vbResults, vbAll, vbBackend, vbProgressed, vbOutcome>>

qgVars == <<qgPc, qgBatch, qgSaved, qgErrors, qgReported>>

ulVars == <<ulPc, ulRuns, ulAttempt, ulCalls, ulDelays, ulMsg, ulHelp>>

caVars == <<caPc, caEnabled, caGens, caKey, caAttempt, caCache, caBackend, caLast>>

bpVars == <<bpPc, bpCallback, bpRemote, bpPolls, bpCalls, bpLast>>

vars == <<sys, wpVars, mgrVars, enVars, v2Vars, guiVars, stVars, vbVars, qgVars, ulVars, caVars, bpVars>>

notWp == <<sys, mgrVars, enVars, v2Vars, guiVars, stVars, vbVars, qgVars, ulVars, caVars, bpVars>>

notMgr == <<sys, wpVars, enVars, v2Vars, guiVars, stVars, vbVars, qgVars, ulVars, caVars, bpVars>>

notEn == <<sys, wpVars, mgrVars, v2Vars, guiVars, stVars, vbVars, qgVars, ulVars, caVars, bpVars>>

notV2 == <<sys, wpVars, mgrVars, enVars, guiVars, stVars, vbVars, qgVars, ulVars, caVars, bpVars>>

notGui == <<sys, wpVars, mgrVars, enVars, v2Vars, stVars, vbVars, qgVars, ulVars, caVars, bpVars>>

notSt == <<sys, wpVars, mgrVars, enVars, v2Vars, guiVars, vbVars, qgVars, ulVars, caVars, bpVars>>

notVb == <<sys, wpVars, mgrVars, enVars, v2Vars, guiVars, stVars, qgVars, ulVars, caVars, bpVars>>

notQg == <<sys, wpVars, mgrVars, enVars, v2Vars, guiVars, stVars, vbVars, ulVars, caVars, bpVars>>

notUl == <<sys, wpVars, mgrVars, enVars, v2Vars, guiVars, stVars, vbVars, qgVars, caVars, bpVars>>

notCa == <<sys, wpVars, mgrVars, enVars, v2Vars, guiVars, stVars, vbVars, qgVars, ulVars, bpVars>>

notBp == <<sys, wpVars, mgrVars, enVars, v2Vars, guiVars, stVars, vbVars, qgVars, ulVars, caVars>>

\* =================================================== dalle_workers.py
Tasks == 1..NumTasks

\* BatchProcessor.generate_batch gives task gen_i the priority i.
Priority(t) == t

\* The exceptions processor_func(task.payload) raises when it fails: a
\* transient (network) error, or an exhausted quota.
ErrorKinds == {"transient", "quota"}

\* queue.PriorityQueue.put((task.priority, task)): lowest priority first.
PQPut(q, t) ==
    LET k == Cardinality({i \in 1..Len(q) : Priority(q[i]) <= Priority(t)})
    IN  SubSeq(q, 1, k) \o <<t>> \o SubSeq(q, k + 1, Len(q))

\* The except branch's test: re-queue while retry_count < max_retries,
\* whatever the exception is.
ShouldRequeue(t, error) == wpRetry[t] < MaxRetries

\* Futures the executor's threads are running: calls in flight.
WpRunning == {i \in 1..Len(wpFutures) : wpFutures[i].st = "running"}

WpQueued == {i \in 1..Len(wpFutures) : wpFutures[i].st = "queued"}

WpAllDone == \A i \in 1..Len(wpFutures) : wpFutures[i].st = "done"

\* The finished calls of processor_func for task t (what an instrumented
\* backend would have recorded), as positions in wpFutures.
WpExecs(t) == {i \in 1..Len(wpFutures) :
                 /\ wpFutures[i].task = t
                 /\ wpFutures[i].st = "done"
                 /\ wpFutures[i].res \in {"COMPLETED", "ERROR"}}

\* The results of the current run for task t with the given status.
CountResults(t, status) ==
    Cardinality({i \in 1..Len(wpResults) :
                   wpResults[i].task_id = t /\ wpResults[i].status = status})

WpInit ==
    /\ wpPc = "idle"
    /\ wpStarted = FALSE
    /\ wpShutdown = FALSE
    /\ wpSubmitted = {}
    /\ wpKind = [t \in Tasks |-> "transient"]
    /\ wpQueue = <<>>
    /\ wpRetry = [t \in Tasks |-> 0]
    /\ wpFutures = <<>>
    /\ wpRunStart = 0
    /\ wpWaitIdx = 0
    /\ wpTimeout = FALSE
    /\ wpExpired = FALSE
    /\ wpResults = <<>>
    /\ wpHanded = [t \in Tasks |-> [COMPLETED |-> 0, ERROR |-> 0]]
    /\ wpActive = {}
    /\ wpCompleted = 0
    /\ wpRuns = 0
    /\ wpId = [t \in Tasks |-> 0 - 1]
    /\ wpProgress = 0

\* WorkerPool.start: initialises worker_stats.
WpStart ==
    /\ sys = "wp"
    /\ wpPc \in {"idle", "done"}
    /\ ~wpStarted
    /\ wpStarted' = TRUE
    /\ UNCHANGED <<notWp, wpId, wpProgress, wpPc, wpShutdown, wpSubmitted, wpKind, wpQueue, wpRetry,
                   wpFutures, wpRunStart, wpWaitIdx, wpTimeout, wpExpired,
                   wpResults, wpHanded, wpActive, wpCompleted, wpRuns>>

\* WorkerPool.stop: executor.shutdown(wait=True) returns once every future
\* given to the executor has finished.
WpStop ==
    /\ sys = "wp"
    /\ wpPc \in {"idle", "done"}
    /\ ~wpShutdown
    /\ WpAllDone
    /\ wpShutdown' = TRUE
    /\ UNCHANGED <<notWp, wpId, wpProgress, wpPc, wpStarted, wpSubmitted, wpKind, wpQueue, wpRetry,
                   wpFutures, wpRunStart, wpWaitIdx, wpTimeout, wpExpired,
                   wpResults, wpHanded, wpActive, wpCompleted, wpRuns>>

\* WorkerPool.submit_task, called by the owner of the pool between runs.
WpSubmitTask(t, kind) ==
    /\ sys = "wp"
    /\ wpPc \in {"idle", "done"}
    /\ t \notin wpSubmitted
    /\ wpSubmitted' = wpSubmitted \cup {t}
    /\ wpKind' = [wpKind EXCEPT ![t] = kind]
    /\ wpQueue' = PQPut(wpQueue, t)
    /\ UNCHANGED <<notWp, wpId, wpProgress, wpPc, wpStarted, wpShutdown, wpRetry, wpFutures,
                   wpRunStart, wpWaitIdx, wpTimeout, wpExpired, wpResults,
                   wpHanded, wpActive, wpCompleted, wpRuns>>

\* The i that enumerate(prompts) gives the prompt at position pos (from 1):
\* the task is created with id gen_i and priority i.
GenIndex(pos) == pos - 1

RECURSIVE SubmitBatch(_, _)
\* WorkerPool.submit_batch: submit_task for each task of the list in turn.
SubmitBatch(q, tasks) ==
    IF tasks = <<>> THEN q
    ELSE SubmitBatch(PQPut(q, Head(tasks)), Tail(tasks))

\* BatchProcessor.generate_batch up to the call of process_tasks_async:
\* the pool is started, one WorkerTask per prompt is created and the list
\* is submitted; process_tasks_async is entered without timeout.  (The
\* stop() of the finally clause is WpStop.)
WpGenerateBatch(n, kinds) ==
    /\ sys = "wp"
    /\ wpPc = "idle"
    /\ ~wpStarted /\ ~wpShutdown
    /\ wpSubmitted = {}
    /\ \A t \in Tasks : t > n => kinds[t] = wpKind[t]
    /\ wpStarted' = TRUE
    /\ wpSubmitted' = 1..n
    /\ wpId' = [t \in Tasks |-> IF t <= n THEN GenIndex(t) ELSE wpId[t]]
    /\ wpKind' = kinds
    /\ wpQueue' = SubmitBatch(wpQueue, [pos \in 1..n |-> pos])
    /\ wpPc' = "submit"
    /\ wpRuns' = wpRuns + 1
    /\ wpRunStart' = Len(wpFutures)
    /\ wpResults' = <<>>
    /\ wpTimeout' = FALSE
    /\ wpExpired' = FALSE
    /\ UNCHANGED <<notWp, wpProgress, wpShutdown, wpRetry, wpFutures, wpWaitIdx, wpHanded,
                   wpActive, wpCompleted>>

\* process_tasks_async is entered: results = [], futures = [].
WpRun(withTimeout) ==
    /\ sys = "wp"
    /\ wpPc \in {"idle", "done"}
    /\ wpRuns < MaxRuns
    /\ wpPc' = "submit"
    /\ wpRuns' = wpRuns + 1
    /\ wpRunStart' = Len(wpFutures)
    /\ wpResults' = <<>>
    /\ wpTimeout' = withTimeout
    /\ wpExpired' = FALSE
    /\ UNCHANGED <<notWp, wpId, wpProgress, wpStarted, wpShutdown, wpSubmitted, wpKind, wpQueue, wpRetry,
                   wpFutures, wpWaitIdx, wpHanded, wpActive, wpCompleted>>

\* One iteration of "while not self.task_queue.empty()": get, submit to the
\* executor, remember the future, enter the task in active_tasks.  A shut
\* down executor refuses the submit (RuntimeError), which leaves the call.
WpSubmitLoop ==
    /\ sys = "wp"
    /\ wpPc = "submit"
    /\ wpQueue # <<>>
    /\ LET t == Head(wpQueue) IN
        /\ wpQueue' = Tail(wpQueue)
        /\ IF wpShutdown
           THEN /\ wpPc' = "raised"
                /\ UNCHANGED <<wpFutures, wpActive>>
           ELSE /\ wpFutures' = Append(wpFutures,
                                  [task |-> t, st |-> "queued", res |-> "none"])
                /\ wpActive' = wpActive \cup {t}
                /\ wpPc' = wpPc
    /\ UNCHANGED <<notWp, wpId, wpProgress, wpStarted, wpShutdown, wpSubmitted, wpKind, wpRetry,
                   wpRunStart, wpWaitIdx, wpTimeout, wpExpired, wpResults,
                   wpHanded, wpCompleted, wpRuns>>

\* The queue is found empty: the submit loop ends, the wait loop begins.
WpSubmitDone ==
    /\ sys = "wp"
    /\ wpPc = "submit"
    /\ wpQueue = <<>>
    /\ wpPc' = "wait"
    /\ wpWaitIdx' = wpRunStart + 1
    /\ UNCHANGED <<notWp, wpId, wpProgress, wpStarted, wpShutdown, wpSubmitted, wpKind, wpQueue, wpRetry,
                   wpFutures, wpRunStart, wpTimeout, wpExpired, wpResults,
                   wpHanded, wpActive, wpCompleted, wpRuns>>

\* An executor thread takes the oldest waiting future and enters
\* _process_single_task.  Without start() the worker_stats lookup raises
\* KeyError before processor_func is called.
WpStartExec ==
    /\ sys = "wp"
    /\ WpQueued # {}
    /\ Cardinality(WpRunning) < NumWorkers
    /\ LET i == CHOOSE j \in WpQueued : \A k \in WpQueued : j <= k IN
        wpFutures' = [wpFutures EXCEPT ![i] =
            IF wpStarted THEN [@ EXCEPT !.st = "running"]
            ELSE [@ EXCEPT !.st = "done", !.res = "raised"]]
    /\ UNCHANGED <<notWp, wpId, wpProgress, wpPc, wpStarted, wpShutdown, wpSubmitted, wpKind, wpQueue,
                   wpRetry, wpRunStart, wpWaitIdx, wpTimeout, wpExpired,
                   wpResults, wpHanded, wpActive, wpCompleted, wpRuns>>

\* processor_func returns, or raises: a COMPLETED result, or the retry test
\* of the except clause.  A task that is re-queued is on task_queue from
\* the submit_task call on, while the thread that ran it is still inside
\* _process_single_task (the ERROR result is built and returned after the
\* put): the future stays running until WpReturnExec.
WpFinishExec(i, ok) ==
    /\ sys = "wp"
    /\ i \in WpRunning
    /\ wpFutures[i].res = "none"
    /\ LET t == wpFutures[i].task IN
        /\ IF ok
           THEN /\ wpFutures' = [wpFutures EXCEPT ![i] =
                        [@ EXCEPT !.st = "done", !.res = "COMPLETED"]]
                /\ UNCHANGED <<wpRetry, wpQueue>>
           ELSE IF ShouldRequeue(t, wpKind[t])
                THEN /\ wpFutures' = [wpFutures EXCEPT ![i].res = "ERROR"]
                     /\ wpRetry' = [wpRetry EXCEPT ![t] = @ + 1]
                     /\ wpQueue' = PQPut(wpQueue, t)
                ELSE /\ wpFutures' = [wpFutures EXCEPT ![i] =
                             [@ EXCEPT !.st = "done", !.res = "ERROR"]]
                     /\ UNCHANGED <<wpRetry, wpQueue>>
    /\ UNCHANGED <<notWp, wpId, wpProgress, wpPc, wpStarted, wpShutdown, wpSubmitted, wpKind, wpRunStart,
                   wpWaitIdx, wpTimeout, wpExpired, wpResults, wpHanded,
                   wpActive, wpCompleted, wpRuns>>

\* _process_single_task, after the re-queue: the ERROR result is built, the
\* finally clause resets worker_stats and the function returns.
WpReturnExec(i) ==
    /\ sys = "wp"
    /\ i \in WpRunning
    /\ wpFutures[i].res = "ERROR"
    /\ wpFutures' = [wpFutures EXCEPT ![i].st = "done"]
    /\ UNCHANGED <<notWp, wpId, wpProgress, wpPc, wpStarted, wpShutdown, wpSubmitted, wpKind, wpQueue,
                   wpRetry, wpRunStart, wpWaitIdx, wpTimeout, wpExpired,
                   wpResults, wpHanded, wpActive, wpCompleted, wpRuns>>

\* Wait loop, future.result() returns or re-raises the worker's exception:
\* the result is appended (completed_tasks counts the returned ones) and the
\* task leaves active_tasks.
WpWaitResult ==
    /\ sys = "wp"
    /\ wpPc = "wait"
    /\ wpWaitIdx <= Len(wpFutures)
    /\ ~wpExpired
    /\ wpFutures[wpWaitIdx].st = "done"
    /\ LET f == wpFutures[wpWaitIdx] IN
        /\ IF f.res = "raised"
           THEN /\ wpResults' = Append(wpResults,
                                  [task_id |-> f.task, status |-> "ERROR",
                                   error |-> "KeyError"])
                /\ UNCHANGED wpCompleted
           ELSE /\ wpResults' = Append(wpResults,
                                  [task_id |-> f.task, status |-> f.res,
                                   error |-> IF f.res = "ERROR"
                                             THEN wpKind[f.task] ELSE "none"])
                /\ wpCompleted' = wpCompleted + 1
        /\ wpActive' = wpActive \ {f.task}
    /\ wpWaitIdx' = wpWaitIdx + 1
    /\ UNCHANGED <<notWp, wpId, wpProgress, wpPc, wpStarted, wpShutdown, wpSubmitted, wpKind, wpQueue,
                   wpRetry, wpFutures, wpRunStart, wpTimeout, wpExpired,
                   wpHanded, wpRuns>>

\* Wait loop with a timeout: remaining <= 0, or future.result(timeout) runs
\* out: TimeoutError becomes an ERROR result; the future itself goes on.
WpWaitTimeout ==
    /\ sys = "wp"
    /\ wpPc = "wait"
    /\ wpWaitIdx <= Len(wpFutures)
    /\ wpTimeout
    /\ LET f == wpFutures[wpWaitIdx] IN
        /\ wpResults' = Append(wpResults,
                          [task_id |-> f.task, status |-> "ERROR",
                           error |-> "TimeoutError"])
        /\ wpActive' = wpActive \ {f.task}
    /\ wpExpired' = TRUE
    /\ wpWaitIdx' = wpWaitIdx + 1
    /\ UNCHANGED <<notWp, wpId, wpProgress, wpPc, wpStarted, wpShutdown, wpSubmitted, wpKind, wpQueue,
                   wpRetry, wpFutures, wpRunStart, wpTimeout, wpHanded,
                   wpCompleted, wpRuns>>

\* The run of process_tasks_async that generate_batch made.
WpInGenerateBatch == wpId[1] >= 0 /\ wpRuns = 1

\* return results; in generate_batch (show_progress) the bar is then set
\* by progress.update(task, completed=len(results)).
WpReturn ==
    /\ sys = "wp"
    /\ wpPc = "wait"
    /\ wpWaitIdx > Len(wpFutures)
    /\ wpPc' = "done"
    /\ wpHanded' = [t \in Tasks |->
          [COMPLETED |-> wpHanded[t].COMPLETED + CountResults(t, "COMPLETED"),
           ERROR |-> wpHanded[t].ERROR + CountResults(t, "ERROR")]]
    /\ wpProgress' = IF WpInGenerateBatch THEN Len(wpResults) ELSE wpProgress
    /\ UNCHANGED <<notWp, wpId, wpStarted, wpShutdown, wpSubmitted, wpKind, wpQueue, wpRetry,
                   wpFutures, wpRunStart, wpWaitIdx, wpTimeout, wpExpired,
                   wpResults, wpActive, wpCompleted, wpRuns>>

WpNext ==
    \/ \E n \in 1..NumTasks, k \in [Tasks -> ErrorKinds] : WpGenerateBatch(n, k)
    \/ WpStart
    \/ WpStop
    \/ \E t \in Tasks, k \in ErrorKinds : WpSubmitTask(t, k)
    \/ \E b \in BOOLEAN : WpRun(b)
    \/ WpSubmitLoop
    \/ WpSubmitDone
    \/ WpStartExec
    \/ \E i \in 1..Len(wpFutures), ok \in BOOLEAN : WpFinishExec(i, ok)
    \/ \E i \in 1..Len(wpFutures) : WpReturnExec(i)
    \/ WpWaitResult
    \/ WpWaitTimeout
    \/ WpReturn

\* =================================================== core/dalle_api.py
Reqs == 1..MaxReqs

\* The _worker_loop tasks start() number g creates, one per DALLEWorker.
LoopsOf(g) == ((g - 1) * MgrWorkers + 1)..(g * MgrWorkers)

Loops == 1..(MaxStarts * MgrWorkers)

\* self._worker_tasks: the tasks of the latest start().
MgrWorkerTasks == IF mgrStarts = 0 THEN {} ELSE LoopsOf(mgrStarts)

\* A loop task that has not returned and was not cancelled.
MgrLive(l) == mgrLoop[l].st \in {"top", "getting", "calling"}

MgrInit ==
    /\ mgrRunning = FALSE
    /\ mgrStarts = 0
    /\ mgrEnq = 0
    /\ mgrReq = [r \in Reqs |-> "unused"]
    /\ mgrQueue = <<>>
    /\ mgrLoop = [l \in Loops |-> [st |-> "none", req |-> 0]]
    /\ mgrCalls = {}
    /\ mgrCb = [r \in Reqs |-> <<>>]
    /\ mgrStopping = FALSE

\* DALLEAPIManager.start: _running = True and one new _worker_loop task per
\* worker; _worker_tasks is overwritten.
MgrStart ==
    /\ sys = "mgr"
    /\ mgrStarts < MaxStarts
    /\ mgrRunning' = TRUE
    /\ mgrStarts' = mgrStarts + 1
    /\ mgrLoop' = [l \in Loops |->
                      IF l \in LoopsOf(mgrStarts + 1)
                      THEN [st |-> "top", req |-> 0] ELSE mgrLoop[l]]
    /\ UNCHANGED <<notMgr, mgrStopping, mgrEnq, mgrReq, mgrQueue, mgrCalls, mgrCb>>

\* DALLEAPIManager.stop, up to its await: _running = False and every task
\* of _worker_tasks is cancelled.  The executor thread of a call in flight
\* is not interrupted by the cancellation of the task awaiting it.
MgrStop ==
    /\ sys = "mgr"
    /\ ~mgrStopping
    /\ mgrRunning \/ \E l \in MgrWorkerTasks : MgrLive(l)
    /\ mgrRunning' = FALSE
    /\ mgrStopping' = TRUE
    /\ mgrLoop' = [l \in Loops |->
                      IF l \in MgrWorkerTasks /\ MgrLive(l)
                      THEN [mgrLoop[l] EXCEPT !.st = "cancelled"]
                      ELSE mgrLoop[l]]
    /\ UNCHANGED <<notMgr, mgrStarts, mgrEnq, mgrReq, mgrQueue, mgrCalls,
                   mgrCb>>

\* DALLEAPIManager.stop: "await asyncio.gather(*self._worker_tasks,
\* return_exceptions=True)" is over, stop() returns.
MgrStopReturn ==
    /\ sys = "mgr"
    /\ mgrStopping
    /\ mgrStopping' = FALSE
    /\ UNCHANGED <<notMgr, mgrRunning, mgrStarts, mgrEnq, mgrReq, mgrQueue,
                   mgrLoop, mgrCalls, mgrCb>>

\* generate_image_async / create_variation_async / edit_image_async:
\* task_queue.put((type, request, callback)); returns None.  The callback
\* is absent (nocb), returns normally (cb) or raises (cb_raises).
MgrEnqueue(callback) ==
    /\ sys = "mgr"
    /\ mgrEnq < MaxReqs
    /\ mgrEnq' = mgrEnq + 1
    /\ mgrReq' = [mgrReq EXCEPT ![mgrEnq + 1] = callback]
    /\ mgrQueue' = Append(mgrQueue, mgrEnq + 1)
    /\ UNCHANGED <<notMgr, mgrStopping, mgrRunning, mgrStarts, mgrLoop, mgrCalls,
                   mgrCb>>

\* _worker_loop: "while self._running".
MgrLoopCheck(l) ==
    /\ sys = "mgr"
    /\ mgrLoop[l].st = "top"
    /\ mgrLoop' = [mgrLoop EXCEPT ![l].st =
                      IF mgrRunning THEN "getting" ELSE "ended"]
    /\ UNCHANGED <<notMgr, mgrStopping, mgrRunning, mgrStarts, mgrEnq, mgrReq,
                   mgrQueue, mgrCalls, mgrCb>>

\* _worker_loop: task_queue.get() returns a request and the worker hands
\* its _sync_* call to the default executor (run_in_executor(None, ...)).
MgrLoopGet(l) ==
    /\ sys = "mgr"
    /\ mgrLoop[l].st = "getting"
    /\ mgrQueue # <<>>
    /\ mgrLoop' = [mgrLoop EXCEPT ![l] = [st |-> "calling",
                                          req |-> Head(mgrQueue)]]
    /\ mgrQueue' = Tail(mgrQueue)
    /\ mgrCalls' = mgrCalls \cup {Head(mgrQueue)}
    /\ UNCHANGED <<notMgr, mgrStopping, mgrRunning, mgrStarts, mgrEnq, mgrReq, mgrCb>>

\* _worker_loop: wait_for(..., timeout=1.0) raises TimeoutError; continue.
MgrLoopTimeout(l) ==
    /\ sys = "mgr"
    /\ mgrLoop[l].st = "getting"
    /\ mgrQueue = <<>>
    /\ mgrLoop' = [mgrLoop EXCEPT ![l].st = "top"]
    /\ UNCHANGED <<notMgr, mgrStopping, mgrRunning, mgrStarts, mgrEnq, mgrReq,
                   mgrQueue, mgrCalls, mgrCb>>

\* A worker loop that ends when a callback raises.
LoopEndsOnRaise(raises) == IF raises THEN "ended" ELSE "top"

\* _worker_loop after "callback(result)": an exception of the callback is
\* caught by "except Exception as e" inside the while loop and printed; the
\* loop goes back to its top either way.
LoopAfterCallback(raises) == "top"

\* The executor thread's _sync_* call returns a GenerationResult (success
\* or, for any exception of the backend, success=False).  The loop awaiting
\* it, unless cancelled meanwhile, invokes the callback when one was given
\* and goes back to the top of the loop.
MgrCallFinish(r, success) ==
    /\ sys = "mgr"
    /\ r \in mgrCalls
    /\ mgrCalls' = mgrCalls \ {r}
    /\ IF \E l \in Loops : mgrLoop[l].st = "calling" /\ mgrLoop[l].req = r
       THEN /\ mgrLoop' = [l \in Loops |->
                  IF mgrLoop[l].st = "calling" /\ mgrLoop[l].req = r
                  THEN [st |-> IF mgrReq[r] = "nocb" THEN "top"
                               ELSE LoopAfterCallback(mgrReq[r] = "cb_raises"),
                        req |-> 0]
                  ELSE mgrLoop[l]]
            /\ mgrCb' = IF mgrReq[r] # "nocb"
                        THEN [mgrCb EXCEPT ![r] = Append(@, success)]
                        ELSE mgrCb
       ELSE UNCHANGED <<mgrLoop, mgrCb>>
    /\ UNCHANGED <<notMgr, mgrStopping, mgrRunning, mgrStarts, mgrEnq, mgrReq,
                   mgrQueue>>

MgrNext ==
    \/ MgrStopReturn
    \/ MgrStart
    \/ MgrStop
    \/ \E c \in {"cb", "cb_raises", "nocb"} : MgrEnqueue(c)
    \/ \E l \in Loops : MgrLoopCheck(l)
    \/ \E l \in Loops : MgrLoopGet(l)
    \/ \E l \in Loops : MgrLoopTimeout(l)
    \/ \E r \in Reqs, b \in BOOLEAN : MgrCallFinish(r, b)

\* =================================================== dalle_cli_enhanced.py
\* self.MAX_PER_REQUEST
MaxPerRequest(model) == IF model = "dall-e-2" THEN 4 ELSE 1

\* math.ceil(num_images / max_per_request)
NumBatches(n, cap) == (n + cap - 1) \div cap

Min(a, b) == IF a <= b THEN a ELSE b

\* batch_size = min(num_images - image_count, max_per_request)
BatchSize(n, count, cap) == Min(n - count, cap)

\* A batch loop whose except clause leaves the loop.
AbortAfterBatchError(batchNum, numBatches) == numBatches

\* What the except clause of the batch loop does with batch_num: the loop
\* goes on with the next batch.
AfterBatchError(batchNum, numBatches) == batchNum + 1

EnInit ==
    /\ enPc = "idle"
    /\ enModel = "dall-e-2"
    /\ enN = 0
    /\ enBatchNum = 0
    /\ enImageCount = 0
    /\ enCalls = <<>>
    /\ enAllImages = <<>>

\* generate_image_batch up to the batch loop: the model and the number of
\* images (validated 1..100) are read; image_count = 0, all_images = [].
EnStart(model, n) ==
    /\ sys = "en"
    /\ enPc = "idle"
    /\ enPc' = "loop"
    /\ enModel' = model
    /\ enN' = n
    /\ enBatchNum' = 0
    /\ enImageCount' = 0
    /\ enCalls' = <<>>
    /\ enAllImages' = <<>>
    /\ UNCHANGED notEn

\* The image numbers start+1 .. start+k, ascending.
ImageNumbers(start, k) == [i \in 1..k |-> start + i]

\* The elements of seq that are in keep, in order.
RECURSIVE KeepOnly(_, _)
KeepOnly(seq, keep) ==
    IF seq = <<>> THEN <<>>
    ELSE (IF Head(seq) \in keep THEN <<Head(seq)>> ELSE <<>>)
         \o KeepOnly(Tail(seq), keep)

\* One iteration of "for batch_num in range(num_batches)".  The generate
\* call asks for batch_size images (dall-e-3: batch_size calls of n=1) and
\* either raises or returns that many images; each image returned is
\* counted, downloaded and, on HTTP 200, saved.  A download that raises at
\* image number `counted` leaves the rest of the response uncounted.  Any
\* exception is printed and the loop continues.
EnBatch(apiOk, counted, saved, dlRaises) ==
    /\ sys = "en"
    /\ enPc = "loop"
    /\ enBatchNum < NumBatches(enN, MaxPerRequest(enModel))
    /\ LET size == BatchSize(enN, enImageCount, MaxPerRequest(enModel))
           asked == IF enModel = "dall-e-3" THEN Min(size, 1) ELSE size
       IN
        /\ asked >= 1
        /\ enCalls' = Append(enCalls, [n |-> asked, ok |-> apiOk,
                                      saved |-> Cardinality(saved)])
        /\ IF apiOk
           THEN /\ counted \in 1..asked
                /\ ~dlRaises => counted = asked
                /\ saved \subseteq
                     (enImageCount + 1)..(enImageCount + counted)
                /\ dlRaises => (enImageCount + counted) \notin saved
                /\ enImageCount' = enImageCount + counted
                /\ enAllImages' = enAllImages \o
                     KeepOnly(ImageNumbers(enImageCount, counted), saved)
                /\ enBatchNum' = IF dlRaises
                     THEN AfterBatchError(enBatchNum,
                              NumBatches(enN, MaxPerRequest(enModel)))
                     ELSE enBatchNum + 1
           ELSE /\ counted = 0 /\ saved = {} /\ ~dlRaises
                /\ enBatchNum' = AfterBatchError(enBatchNum,
                                   NumBatches(enN, MaxPerRequest(enModel)))
                /\ UNCHANGED <<enImageCount, enAllImages>>
    /\ UNCHANGED <<notEn, enPc, enModel, enN>>

\* The batch loop is exhausted: the summary is printed.
EnDone ==
    /\ sys = "en"
    /\ enPc = "loop"
    /\ enBatchNum >= NumBatches(enN, MaxPerRequest(enModel))
    /\ enPc' = "done"
    /\ UNCHANGED <<notEn, enModel, enN, enBatchNum, enImageCount, enCalls,
                   enAllImages>>

EnNext ==
    \/ \E m \in {"dall-e-2", "dall-e-3"}, n \in 1..MaxImages : EnStart(m, n)
    \/ \E a \in BOOLEAN, c \in 0..4, d \in BOOLEAN,
          sv \in SUBSET ((enImageCount + 1)..(enImageCount + 4)) :
            EnBatch(a, c, sv, d)
    \/ EnDone

\* =================================================== dalle_cli_v2.py
V2Init ==
    /\ v2Pc = "idle"
    /\ v2N = 0
    /\ v2Pending = {}
    /\ v2Results = <<>>
    /\ v2Progress = <<>>

\* generate_batch: one generate_single coroutine per prompt; as_completed
\* schedules them all at once.
V2Start(n) ==
    /\ sys = "v2"
    /\ v2Pc = "idle"
    /\ v2Pc' = "run"
    /\ v2N' = n
    /\ v2Pending' = 1..n
    /\ v2Results' = <<>>
    /\ v2Progress' = <<>>
    /\ UNCHANGED notV2

\* A callback that is given the enumerate index as it is.
ProgressCountFromZero(i) == i

\* The completed count progress_callback is given in iteration i (from 0)
\* of the as_completed loop.
ProgressCount(i) == i + 1

\* Where generate_batch puts the result of the call that finished.
V2Place(results, r) == Append(results, r)

\* "for i, task in enumerate(asyncio.as_completed(tasks))": the next call to
\* finish, whichever prompt it belongs to, yields its result dict
\* (generate_single turns an exception into success=False) and
\* progress_callback(i + 1, len(prompts)) is called, i counting the results
\* yielded before.
V2Complete(i, success) ==
    /\ sys = "v2"
    /\ v2Pc = "run"
    /\ i \in v2Pending
    /\ v2Pending' = v2Pending \ {i}
    /\ v2Results' = V2Place(v2Results, [index |-> i, success |-> success])
    /\ v2Progress' = Append(v2Progress, ProgressCount(Len(v2Results)))
    /\ UNCHANGED <<notV2, v2Pc, v2N>>

\* return results
V2Return ==
    /\ sys = "v2"
    /\ v2Pc = "run"
    /\ v2Pending = {}
    /\ v2Pc' = "done"
    /\ UNCHANGED <<notV2, v2N, v2Pending, v2Results, v2Progress>>

V2Next ==
    \/ \E n \in 1..MaxPrompts : V2Start(n)
    \/ \E i \in 1..MaxPrompts, b \in BOOLEAN : V2Complete(i, b)
    \/ V2Return

\* =================================================== gui/widgets/batch_tab.py
Jobs == 1..NumJobs

Threads == 1..MaxThreads

\* BatchJobsList.get_pending_jobs, in list order.
RECURSIVE AscendingSeq(_)
AscendingSeq(S) ==
    IF S = {} THEN <<>>
    ELSE LET m == CHOOSE x \in S : \A y \in S : x <= y
         IN  <<m>> \o AscendingSeq(S \ {m})

PendingJobs == AscendingSeq({j \in Jobs : guiJobs[j] = "pending"})

\* What "await self.api_manager.generate_image_async(request)" evaluates
\* to: DALLEAPIManager.generate_image_async only puts the request on the
\* queue and returns None.
GenerateImageAsyncResult == "None"

NoThread == [pc |-> "none", jobs |-> <<>>, i |-> 0, job |-> 0,
             completed |-> 0, failed |-> 0, cost |-> 0, final |-> ""]

GuiInit ==
    /\ guiJobs = [j \in Jobs |-> "none"]
    /\ guiRunning = FALSE
    /\ guiStartBtn = TRUE
    /\ guiStopBtn = FALSE
    /\ guiThreads = [t \in Threads |-> NoThread]
    /\ guiUi = <<>>
    /\ guiApiPut = <<>>
    /\ guiShown = [completed |-> 0, failed |-> 0, cost |-> 0, status |-> ""]

\* add_manual_job / import: BatchJobsList.add_job appends a pending job.
GuiAddJob(j) ==
    /\ sys = "gui"
    /\ guiJobs[j] = "none"
    /\ \A k \in Jobs : k < j => guiJobs[k] # "none"
    /\ guiJobs' = [guiJobs EXCEPT ![j] = "pending"]
    /\ UNCHANGED <<notGui, guiRunning, guiStartBtn, guiStopBtn, guiThreads,
                   guiUi, guiApiPut, guiShown>>

\* BatchTab.start_batch (the user confirms): batch_running = True, the
\* buttons swap, a thread is started on a copy of the pending jobs.
GuiStartBatch(th) ==
    /\ sys = "gui"
    /\ guiStartBtn
    /\ PendingJobs # <<>>
    /\ guiThreads[th].pc = "none"
    /\ \A u \in Threads : u < th => guiThreads[u].pc # "none"
    /\ guiRunning' = TRUE
    /\ guiStartBtn' = FALSE
    /\ guiStopBtn' = TRUE
    /\ guiThreads' = [guiThreads EXCEPT ![th] =
                         [NoThread EXCEPT !.pc = "loop", !.jobs = PendingJobs]]
    /\ UNCHANGED <<notGui, guiJobs, guiUi, guiApiPut, guiShown>>

\* BatchTab.stop_batch: batch_running = False, the buttons swap back,
\* update_progress(0, 0, "Batch stopped"), failed and total_cost taking
\* their defaults 0 and 0.0.
GuiStopBatch ==
    /\ sys = "gui"
    /\ guiStopBtn
    /\ guiRunning' = FALSE
    /\ guiStartBtn' = TRUE
    /\ guiStopBtn' = FALSE
    /\ guiShown' = [completed |-> 0, failed |-> 0, cost |-> 0,
                    status |-> "Batch stopped"]
    /\ UNCHANGED <<notGui, guiJobs, guiThreads, guiUi, guiApiPut>>

\* How one job of _process_batch_async ends.  result.success is read from
\* what generate_image_async returned: on None the attribute access raises
\* and the except clause fails the job; on a result, the job completes when
\* it succeeded and at least one image was downloaded.
JobOutcome(result, downloaded) ==
    IF result = "None" THEN "raised"
    ELSE IF result = "success" /\ downloaded THEN "completed"
    ELSE "failed"

\* A total_cost that grows with every job.
TotalCostAfterAny(cost, outcome) == cost + 1

\* total_cost after a job: "total_cost += result.cost" is in the branch of
\* a completed job only (result.cost counted as one unit).
TotalCostAfter(cost, outcome) ==
    IF outcome = "completed" THEN cost + 1 ELSE cost

\* _process_batch_async, one iteration of "for i, job in enumerate(jobs)"
\* that passes the batch_running test: the "processing" status update (job
\* bound at creation) and a progress update are handed to Tk; the request is
\* put on the manager's queue; the job is marked by its outcome and Tk is
\* handed a status update whose job is read when the callback runs, and,
\* unless an exception was raised, a progress update.
GuiThreadJob(th, downloaded) ==
    /\ sys = "gui"
    /\ guiThreads[th].pc = "loop"
    /\ guiThreads[th].i < Len(guiThreads[th].jobs)
    /\ guiRunning
    /\ LET T == guiThreads[th]
           j == T.jobs[T.i + 1]
           out == JobOutcome(GenerateImageAsyncResult, downloaded)
           status == IF out = "completed" THEN "completed" ELSE "failed"
       IN
        /\ guiApiPut' = Append(guiApiPut, j)
        /\ guiJobs' = [guiJobs EXCEPT ![j] = status]
        /\ guiThreads' = [guiThreads EXCEPT ![th] =
              [T EXCEPT !.i = T.i + 1, !.job = j,
                        !.completed = IF status = "completed"
                                      THEN T.completed + 1 ELSE T.completed,
                        !.failed = IF status = "failed"
                                   THEN T.failed + 1 ELSE T.failed,
                        !.cost = TotalCostAfter(T.cost, out)]]
        /\ guiUi' = guiUi \o
              << [op |-> "status", th |-> th, job |-> j,
                  status |-> "processing"],
                 [op |-> "progress", th |-> th, job |-> 0,
                  status |-> "Processing"],
                 [op |-> "status", th |-> th, job |-> 0, status |-> status] >>
              \o (IF out = "raised" THEN <<>>
                  ELSE << [op |-> "progress", th |-> th, job |-> 0,
                           status |-> "Completed job"] >>)
    /\ UNCHANGED <<notGui, guiRunning, guiStartBtn, guiStopBtn, guiShown>>

\* _process_batch_async leaves the loop (jobs exhausted, or batch_running
\* found False: break), hands Tk the final progress update, and
\* _process_batch_thread's finally hands Tk _batch_finished.
GuiThreadExit(th) ==
    /\ sys = "gui"
    /\ guiThreads[th].pc = "loop"
    /\ guiThreads[th].i >= Len(guiThreads[th].jobs) \/ ~guiRunning
    /\ LET final == IF guiRunning THEN "Batch completed" ELSE "Batch stopped"
       IN
        /\ guiThreads' = [guiThreads EXCEPT ![th] =
                             [@ EXCEPT !.pc = "finished", !.final = final]]
        /\ guiUi' = guiUi \o
              << [op |-> "progress", th |-> th, job |-> 0, status |-> final],
                 [op |-> "finished", th |-> th, job |-> 0, status |-> ""] >>
    /\ UNCHANGED <<notGui, guiJobs, guiRunning, guiStartBtn, guiStopBtn,
                   guiApiPut, guiShown>>

\* Tk's main loop runs the oldest callback: update_job_status (of the bound
\* job, or of the thread's job variable as it is now), update_progress (of
\* the thread's counters as they are now), or _batch_finished.
GuiUiRun ==
    /\ sys = "gui"
    /\ guiUi # <<>>
    /\ LET c == Head(guiUi)
           T == guiThreads[c.th]
           j == IF c.job # 0 THEN c.job ELSE T.job
       IN
        /\ guiUi' = Tail(guiUi)
        /\ guiJobs' = IF c.op = "status" /\ j \in Jobs
                      THEN [guiJobs EXCEPT ![j] = c.status] ELSE guiJobs
        /\ guiShown' = IF c.op = "progress"
                       THEN [completed |-> T.completed, failed |-> T.failed,
                             cost |-> T.cost, status |-> c.status]
                       ELSE guiShown
        /\ guiRunning' = IF c.op = "finished" THEN FALSE ELSE guiRunning
        /\ guiStartBtn' = IF c.op = "finished" THEN TRUE ELSE guiStartBtn
        /\ guiStopBtn' = IF c.op = "finished" THEN FALSE ELSE guiStopBtn
    /\ UNCHANGED <<notGui, guiThreads, guiApiPut>>

GuiNext ==
    \/ \E j \in Jobs : GuiAddJob(j)
    \/ \E th \in Threads : GuiStartBatch(th)
    \/ GuiStopBatch
    \/ \E th \in Threads, d \in BOOLEAN : GuiThreadJob(th, d)
    \/ \E th \in Threads : GuiThreadExit(th)
    \/ GuiUiRun

\* =================================================== core/dalle_api_v2.py
StPrompts == 1..MaxStream

StInit ==
    /\ stPc = "idle"
    /\ stN = 0
    /\ stTask = [i \in StPrompts |-> "none"]
    /\ stYielded = <<>>

\* An enumeration that starts at 1.
StreamIndexFromOne(pos) == pos

\* "for i, prompt in enumerate(prompts)": the index handed to
\* generate_with_semaphore for the prompt at position pos (from 1).
StreamIndex(pos) == pos - 1

\* Calls of generate_with_retry that hold the semaphore.
StCalling == {i \in StPrompts : stTask[i] = "calling"}

StWaiting == {i \in StPrompts : stTask[i] = "waiting"}

\* generate_stream: Semaphore(max_concurrent), one generate_with_semaphore
\* coroutine per prompt with index = position, all scheduled by as_completed.
StStart(n) ==
    /\ sys = "st"
    /\ stPc = "idle"
    /\ stPc' = "run"
    /\ stN' = n
    /\ stTask' = [i \in StPrompts |-> IF i <= n THEN "waiting" ELSE "none"]
    /\ stYielded' = <<>>
    /\ UNCHANGED notSt

\* "async with semaphore": the longest-waiting coroutine (lowest index)
\* enters while fewer than max_concurrent hold the semaphore, and calls
\* generate_with_retry.
StAcquire ==
    /\ sys = "st"
    /\ stPc = "run"
    /\ StWaiting # {}
    /\ Cardinality(StCalling) < MaxConcurrent
    /\ LET i == CHOOSE j \in StWaiting : \A k \in StWaiting : j <= k IN
        stTask' = [stTask EXCEPT ![i] = "calling"]
    /\ UNCHANGED <<notSt, stPc, stN, stYielded>>

\* generate_with_retry returns or raises for good: the result dict or the
\* error dict, with the coroutine's index and prompt, is returned, the semaphore is released and
\* as_completed yields it.
StFinish(i, success) ==
    /\ sys = "st"
    /\ stPc = "run"
    /\ stTask[i] = "calling"
    /\ stTask' = [stTask EXCEPT ![i] = "done"]
    /\ stYielded' = Append(stYielded, [index |-> StreamIndex(i), prompt |-> i,
                                       success |-> success])
    /\ UNCHANGED <<notSt, stPc, stN>>

\* The as_completed loop is exhausted.
StEnd ==
    /\ sys = "st"
    /\ stPc = "run"
    /\ \A i \in StPrompts : stTask[i] \in {"none", "done"}
    /\ stPc' = "done"
    /\ UNCHANGED <<notSt, stN, stTask, stYielded>>

StNext ==
    \/ \E n \in 1..MaxStream : StStart(n)
    \/ StAcquire
    \/ \E i \in StPrompts, b \in BOOLEAN : StFinish(i, b)
    \/ StEnd

\* =================================== dalle_cli_v2.py batch, _batch_async
\* --concurrent is a click integer option: any integer is accepted.
ConcurrentValues == (0 - 1)..MaxBatchConcurrent

VbInit ==
    /\ vbPc = "idle"
    /\ vbN = 0
    /\ vbConcurrent = 1
    /\ vbI = 0
    /\ vbInFlight = {}
    /\ vbResults = <<>>
    /\ vbAll = <<>>
    /\ vbBackend = 0
    /\ vbProgressed = <<>>
    /\ vbOutcome = "none"

\* range(0, stop, step) has a next element at i.
RangeHas(i, stop, step) ==
    IF step > 0 THEN i < stop ELSE step < 0 /\ i > stop

\* prompts[i:i+batch_size], as 1-based prompt positions (i >= 0 here).
Slice(i, size, n) ==
    {p \in 1..n : i < p /\ p <= i + size}

\* batch: the non-empty stripped lines of the file are the prompts; an
\* empty list prints "No prompts found in file" and returns.
VbBatch(n, c) ==
    /\ sys = "vb"
    /\ vbPc = "idle"
    /\ vbN' = n
    /\ vbConcurrent' = c
    /\ IF n = 0
       THEN vbPc' = "done" /\ vbOutcome' = "no_prompts"
       ELSE vbPc' = "confirm" /\ vbOutcome' = "none"
    /\ UNCHANGED <<notVb, vbI, vbInFlight, vbResults, vbAll, vbBackend,
                   vbProgressed>>

\* _batch_async up to the for statement: cost estimate, Confirm.ask,
\* mkdir, batch_size = concurrent, range(0, len(prompts), batch_size).
\* range() raises ValueError for a step of 0.
VbConfirm(yes) ==
    /\ sys = "vb"
    /\ vbPc = "confirm"
    /\ IF ~yes
       THEN vbPc' = "done" /\ vbOutcome' = "declined"
       ELSE IF vbConcurrent = 0
            THEN vbPc' = "done" /\ vbOutcome' = "ValueError"
            ELSE vbPc' = "loop" /\ vbOutcome' = "none"
    /\ vbI' = 0
    /\ UNCHANGED <<notVb, vbN, vbConcurrent, vbInFlight, vbResults, vbAll,
                   vbBackend, vbProgressed>>

\* One iteration starts: generate_batch creates a generate_single
\* coroutine for every prompt of the slice and as_completed runs them.
VbChunkStart ==
    /\ sys = "vb"
    /\ vbPc = "loop"
    /\ RangeHas(vbI, vbN, vbConcurrent)
    /\ vbPc' = "chunk"
    /\ vbInFlight' = Slice(vbI, vbConcurrent, vbN)
    /\ vbBackend' = vbBackend + Cardinality(Slice(vbI, vbConcurrent, vbN))
    /\ vbResults' = <<>>
    /\ UNCHANGED <<notVb, vbN, vbConcurrent, vbI, vbAll, vbProgressed,
                   vbOutcome>>

\* The next generate_single of the chunk to finish: its result is
\* appended and update_batch_progress(len(results), len(batch_prompts))
\* sets the bar to i + completed.
VbComplete(p, success) ==
    /\ sys = "vb"
    /\ vbPc = "chunk"
    /\ p \in vbInFlight
    /\ vbInFlight' = vbInFlight \ {p}
    /\ vbResults' = V2Place(vbResults, [prompt |-> p, success |-> success])
    /\ vbProgressed' = Append(vbProgressed, vbI + Len(vbResults) + 1)
    /\ UNCHANGED <<notVb, vbPc, vbN, vbConcurrent, vbI, vbAll, vbBackend,
                   vbOutcome>>

\* generate_batch has returned: every successful result j is downloaded to
\* a file named after batch_prompts[j]; result['saved_path'] is set when
\* the download worked; all_results.extend(results).
VbChunkSave(downloaded) ==
    /\ sys = "vb"
    /\ vbPc = "chunk"
    /\ vbInFlight = {}
    /\ downloaded \subseteq {j \in 1..Len(vbResults) : vbResults[j].success}
    /\ vbAll' = vbAll \o
         [j \in 1..Len(vbResults) |->
            [prompt |-> vbResults[j].prompt,
             success |-> vbResults[j].success,
             named |-> IF vbResults[j].success THEN vbI + j ELSE 0,
             saved |-> j \in downloaded]]
    /\ vbI' = vbI + vbConcurrent
    /\ vbPc' = "loop"
    /\ vbResults' = <<>>
    /\ UNCHANGED <<notVb, vbN, vbConcurrent, vbInFlight, vbBackend,
                   vbProgressed, vbOutcome>>

\* The range is exhausted: "Successfully generated {successful}/{len(prompts)}
\* images" and the report are written.
VbSummary ==
    /\ sys = "vb"
    /\ vbPc = "loop"
    /\ ~RangeHas(vbI, vbN, vbConcurrent)
    /\ vbPc' = "done"
    /\ vbOutcome' = "summary"
    /\ UNCHANGED <<notVb, vbN, vbConcurrent, vbI, vbInFlight, vbResults,
                   vbAll, vbBackend, vbProgressed>>

VbNext ==
    \/ \E n \in 0..MaxPrompts, c \in ConcurrentValues : VbBatch(n, c)
    \/ \E y \in BOOLEAN : VbConfirm(y)
    \/ VbChunkStart
    \/ \E p \in 1..MaxPrompts, b \in BOOLEAN : VbComplete(p, b)
    \/ \E d \in SUBSET (1..MaxPrompts) : VbChunkSave(d)
    \/ VbSummary

\* ================================ dalle_cli_enhanced.py quick_generate
\* for batch in range(3)
QuickBatches == 3

\* The number of images quick_generate announces and reports.
QuickTotal == 10

\* n = 4 if batch < 2 else 2
QuickN(batch) == IF batch < 2 THEN 4 ELSE 2

\* idx = batch * 4 + i + 1, for position i (0-based) of the response
QuickIdx(batch, i) == batch * 4 + i + 1

QgInit ==
    /\ qgPc = "idle"
    /\ qgBatch = 0
    /\ qgSaved = {}
    /\ qgErrors = {}
    /\ qgReported = 0

\* A prompt was entered (an empty prompt returns at once).
QgStart ==
    /\ sys = "qg"
    /\ qgPc = "idle"
    /\ qgPc' = "loop"
    /\ UNCHANGED <<notQg, qgBatch, qgSaved, qgErrors, qgReported>>

\* One iteration of the loop.  images.generate(n=n) raises or returns n
\* images; image i is written when its download answers 200; a download
\* that raises at position raisedAt (0: none) ends the iteration.  The
\* except clause prints the error.
QgIteration(apiOk, ok200, raisedAt) ==
    /\ sys = "qg"
    /\ qgPc = "loop"
    /\ qgBatch < QuickBatches
    /\ ok200 \subseteq 0..(QuickN(qgBatch) - 1)
    /\ raisedAt \in 0..QuickN(qgBatch)
    /\ ~apiOk => (ok200 = {} /\ raisedAt = 0)
    /\ raisedAt > 0 => \A i \in ok200 : i < raisedAt - 1
    /\ qgSaved' = qgSaved \cup {QuickIdx(qgBatch, i) : i \in ok200}
    /\ qgErrors' = IF ~apiOk \/ raisedAt > 0
                   THEN qgErrors \cup {qgBatch} ELSE qgErrors
    /\ qgBatch' = qgBatch + 1
    /\ UNCHANGED <<notQg, qgPc, qgReported>>

\* After the loop: print "Generated 10 images in: ...".
QgDone ==
    /\ sys = "qg"
    /\ qgPc = "loop"
    /\ qgBatch = QuickBatches
    /\ qgPc' = "done"
    /\ qgReported' = QuickTotal
    /\ UNCHANGED <<notQg, qgBatch, qgSaved, qgErrors>>

QgNext ==
    \/ QgStart
    \/ \E a \in BOOLEAN, s \in SUBSET (0..3), r \in 0..4 :
            QgIteration(a, s, r)
    \/ QgDone

\* ------------------------------------------------------------------------
\* dalle_cli_ultra.py: generate (one image), generate_single,
\* SmartErrorHandler
\* ------------------------------------------------------------------------

\* The substrings handle_error looks for in str(error).lower(); an error
\* message is modelled by the set of those it contains.
Words == {"api", "key", "rate", "limit", "network", "connection", "size",
          "quota", "balance"}

\* SmartErrorHandler.handle_error: the first pattern that matches, in the
\* order of the if / elif chain.
HandleError(msg) ==
    IF "api" \in msg /\ "key" \in msg THEN "api_key"
    ELSE IF "rate" \in msg /\ "limit" \in msg THEN "rate_limit"
    ELSE IF "network" \in msg \/ "connection" \in msg THEN "network"
    ELSE IF "size" \in msg THEN "invalid_size"
    ELSE IF "quota" \in msg \/ "balance" \in msg THEN "quota"
    ELSE "unknown"

\* ERROR_SOLUTIONS and the fallback dictionary: which entries have the keys
\* "command", "retry" and "url".
HasCommand(class) == class \in {"api_key", "invalid_size"}

HasRetry(class) == class \in {"rate_limit", "network", "unknown"}

HasUrl(class) == class = "quota"

\* A show_error_help that offers the retry for every entry without a
\* command.
ShowErrorHelpNoCommand(class, confirm) == ~HasCommand(class) /\ confirm

\* SmartErrorHandler.show_error_help: the value returned, confirm being the
\* user's answer to the one question asked.  Only the retry branch returns
\* True.
ShowErrorHelp(class, confirm) ==
    IF HasCommand(class) THEN FALSE
    ELSE IF HasRetry(class) /\ confirm THEN TRUE
    ELSE FALSE

\* A delay that does not depend on the attempt.
BackoffFlat(attempt) == 1

\* generate_single: time.sleep(2 ** attempt).
Backoff(attempt) == 2 ^ attempt

NoHelp == [class |-> "none", returned |-> FALSE]

UlInit ==
    /\ ulPc = "idle"
    /\ ulRuns = 0
    /\ ulAttempt = 0
    /\ ulCalls = 0
    /\ ulDelays = <<>>
    /\ ulMsg = {}
    /\ ulHelp = NoHelp

\* generate with a prompt and n = 1.  Without an API key in the
\* preferences show_error_help(Exception("API key not found")) is called
\* and the command returns; otherwise generate_single starts its loop.
UlGenerate(hasKey) ==
    /\ sys = "ul"
    /\ ulPc = "idle"
    /\ ulRuns = 0
    /\ ulRuns' = 1
    /\ IF hasKey
       THEN /\ ulPc' = "try"
            /\ UNCHANGED ulMsg
       ELSE /\ ulPc' = "nokey"
            /\ ulMsg' = {"api", "key"}
    /\ ulAttempt' = 0
    /\ ulCalls' = 0
    /\ ulDelays' = <<>>
    /\ UNCHANGED <<notUl, ulHelp>>

\* generate, no API key: the help is shown, its value is not used.
UlNoKeyHelp(confirm) ==
    /\ sys = "ul"
    /\ ulPc = "nokey"
    /\ ulHelp' = [class |-> HandleError(ulMsg),
                  returned |-> ShowErrorHelp(HandleError(ulMsg), confirm)]
    /\ ulPc' = "ended"
    /\ UNCHANGED <<notUl, ulRuns, ulAttempt, ulCalls, ulDelays, ulMsg>>

\* generate_single, one iteration of "for attempt in
\* range(Config.RETRY_ATTEMPTS)": images.generate is called; when the call,
\* the download and the write succeed the path is returned; on an exception
\* the loop sleeps when attempt < RETRY_ATTEMPTS - 1 and re-raises
\* otherwise.
UlAttempt(ok, msg) ==
    /\ sys = "ul"
    /\ ulPc = "try"
    /\ ulAttempt < RetryAttempts
    /\ ulCalls' = ulCalls + 1
    /\ IF ok
       THEN /\ ulPc' = "returned"
            /\ UNCHANGED <<ulAttempt, ulMsg>>
       ELSE IF ulAttempt < RetryAttempts - 1
            THEN /\ ulPc' = "sleep"
                 /\ UNCHANGED <<ulAttempt, ulMsg>>
            ELSE /\ ulPc' = "raised"
                 /\ ulMsg' = msg
                 /\ UNCHANGED ulAttempt
    /\ UNCHANGED <<notUl, ulRuns, ulDelays, ulHelp>>

\* generate_single: time.sleep(2 ** attempt), then the next iteration.
UlSleep ==
    /\ sys = "ul"
    /\ ulPc = "sleep"
    /\ ulDelays' = Append(ulDelays, Backoff(ulAttempt))
    /\ ulAttempt' = ulAttempt + 1
    /\ ulPc' = "try"
    /\ UNCHANGED <<notUl, ulRuns, ulCalls, ulMsg, ulHelp>>

\* generate: the image was generated; the summary is printed.
UlFinish ==
    /\ sys = "ul"
    /\ ulPc = "returned"
    /\ ulPc' = "ended"
    /\ UNCHANGED <<notUl, ulRuns, ulAttempt, ulCalls, ulDelays, ulMsg,
                   ulHelp>>

\* generate, "except Exception as e": show_error_help(e); when it returns
\* True generate is called again with the same arguments.
UlShowErrorHelp(confirm) ==
    /\ sys = "ul"
    /\ ulPc = "raised"
    /\ LET class == HandleError(ulMsg)
           again == ShowErrorHelp(class, confirm)
       IN
        /\ ulHelp' = [class |-> class, returned |-> again]
        /\ IF again /\ ulRuns < MaxGenerates
           THEN /\ ulPc' = "try"
                /\ ulRuns' = ulRuns + 1
                /\ ulAttempt' = 0
                /\ ulCalls' = 0
                /\ ulDelays' = <<>>
           ELSE /\ ulPc' = "ended"
                /\ UNCHANGED <<ulRuns, ulAttempt, ulCalls, ulDelays>>
    /\ UNCHANGED <<notUl, ulMsg>>

UlNext ==
    \/ \E k \in BOOLEAN : UlGenerate(k)
    \/ \E c \in BOOLEAN : UlNoKeyHelp(c)
    \/ \E ok \in BOOLEAN, msg \in SUBSET Words : UlAttempt(ok, msg)
    \/ UlSleep
    \/ UlFinish
    \/ \E c \in BOOLEAN : UlShowErrorHelp(c)

\* ------------------------------------------------------------------------
\* core/dalle_api_v2.py: EnhancedImageGenerator.generate_with_retry and its
\* cache
\* ------------------------------------------------------------------------

\* The distinct (prompt, model, size, quality, style) requests, by their
\* _get_cache_key.
CacheKeys == 1..NumCacheKeys

NoEntry == [st |-> "none", val |-> 0]

NoReturn == [key |-> 0, how |-> "none", from_cache |-> FALSE, val |-> 0,
             calls |-> 0]

\* A lookup that returns the file whatever its age.
GetCachedResultAnyAge(enabled, entry) ==
    IF enabled /\ entry.st # "none" THEN entry ELSE NoEntry

\* _get_cached_result: None when caching is disabled, when the file does
\* not exist, or when it is 7 days old or older; else the file's content.
GetCachedResult(enabled, entry) ==
    IF enabled /\ entry.st = "fresh" THEN entry ELSE NoEntry

\* _save_to_cache: writes the file (a new modification time) unless
\* caching is disabled.
SaveToCache(enabled, cache, key, val) ==
    IF enabled THEN [cache EXCEPT ![key] = [st |-> "fresh", val |-> val]]
    ELSE cache

CaInit ==
    /\ caPc = "new"
    /\ caEnabled = FALSE
    /\ caGens = 0
    /\ caKey = 1
    /\ caAttempt = 0
    /\ caCache = [k \in CacheKeys |-> NoEntry]
    /\ caBackend = 0
    /\ caLast = NoReturn

\* EnhancedImageGenerator(api_key, cache_enabled): the cache files of
\* earlier processes are not modelled, the cache starts empty.
CaConstruct(enabled) ==
    /\ sys = "ca"
    /\ caPc = "new"
    /\ caPc' = "idle"
    /\ caEnabled' = enabled
    /\ UNCHANGED <<notCa, caGens, caKey, caAttempt, caCache, caBackend,
                   caLast>>

\* generate_with_retry is called: the decorator makes the first attempt.
CaGenerate(key) ==
    /\ sys = "ca"
    /\ caPc = "idle"
    /\ caGens < MaxGens
    /\ caGens' = caGens + 1
    /\ caKey' = key
    /\ caAttempt' = 1
    /\ caPc' = "lookup"
    /\ caLast' = NoReturn
    /\ UNCHANGED <<notCa, caEnabled, caCache, caBackend>>

\* An attempt starts: the cache key is computed and looked up; a hit is
\* returned with from_cache set, a miss goes on to the backend call.
CaLookup ==
    /\ sys = "ca"
    /\ caPc = "lookup"
    /\ LET cached == GetCachedResult(caEnabled, caCache[caKey]) IN
        IF cached # NoEntry
        THEN /\ caPc' = "idle"
             /\ caLast' = [key |-> caKey, how |-> "returned",
                           from_cache |-> TRUE, val |-> cached.val,
                           calls |-> caAttempt - 1]
        ELSE /\ caPc' = "backend"
             /\ UNCHANGED caLast
    /\ UNCHANGED <<notCa, caEnabled, caGens, caKey, caAttempt, caCache,
                   caBackend>>

\* client.images.generate returns: the result is built, saved to the cache
\* and returned; or it raises: the decorator retries the whole function
\* until stop_after_attempt(3), then raises RetryError.
CaBackendCall(ok) ==
    /\ sys = "ca"
    /\ caPc = "backend"
    /\ caBackend' = caBackend + 1
    /\ IF ok
       THEN /\ caCache' = SaveToCache(caEnabled, caCache, caKey,
                                      caBackend + 1)
            /\ caLast' = [key |-> caKey, how |-> "returned",
                          from_cache |-> FALSE, val |-> caBackend + 1,
                          calls |-> caAttempt]
            /\ caPc' = "idle"
            /\ UNCHANGED caAttempt
       ELSE /\ UNCHANGED caCache
            /\ IF caAttempt < StopAfterAttempt
               THEN /\ caAttempt' = caAttempt + 1
                    /\ caPc' = "lookup"
                    /\ UNCHANGED caLast
               ELSE /\ caPc' = "idle"
                    /\ caLast' = [key |-> caKey, how |-> "raised",
                                  from_cache |-> FALSE, val |-> 0,
                                  calls |-> caAttempt]
                    /\ UNCHANGED caAttempt
    /\ UNCHANGED <<notCa, caEnabled, caGens, caKey>>

\* Time passes: a cache file becomes 7 days old.
CaExpire(key) ==
    /\ sys = "ca"
    /\ caCache[key].st = "fresh"
    /\ caCache' = [caCache EXCEPT ![key].st = "expired"]
    /\ UNCHANGED <<notCa, caPc, caEnabled, caGens, caKey, caAttempt,
                   caBackend, caLast>>

CaNext ==
    \/ \E e \in BOOLEAN : CaConstruct(e)
    \/ \E k \in CacheKeys : CaGenerate(k)
    \/ CaLookup
    \/ \E ok \in BOOLEAN : CaBackendCall(ok)
    \/ \E k \in CacheKeys : CaExpire(k)

\* ------------------------------------------------------------------------
\* core/dalle_api_v2.py: BatchProcessor.wait_for_completion
\* ------------------------------------------------------------------------

\* response.status of client.batches.retrieve: the statuses of a batch of
\* the OpenAI Batch API.
RemoteStatuses == {"validating", "in_progress", "finalizing", "cancelling",
                   "completed", "failed", "expired", "cancelled"}

\* The statuses a batch does not leave.
RemoteFinal == {"completed", "failed", "expired", "cancelled"}

\* The statuses the remote job can take next.
RemoteNext(s) ==
    CASE s = "validating" -> {"in_progress", "failed", "cancelling"}
      [] s = "in_progress" -> {"finalizing", "expired", "cancelling"}
      [] s = "finalizing" -> {"completed", "cancelling"}
      [] s = "cancelling" -> {"cancelled"}
      [] OTHER -> {}

\* "if job.status in ['completed', 'failed', 'expired']".
IsDone(status) == status \in {"completed", "failed", "expired"}

\* A counter that stops counting at MaxPolls.
CountUp(c) == IF c < MaxPolls THEN c + 1 ELSE c

BpInit ==
    /\ bpPc = "idle"
    /\ bpCallback = FALSE
    /\ bpRemote = "validating"
    /\ bpPolls = 0
    /\ bpCalls = 0
    /\ bpLast = "none"

\* wait_for_completion(batch_id, poll_interval, callback) is called.
BpWait(withCallback) ==
    /\ sys = "bp"
    /\ bpPc = "idle"
    /\ bpPc' = "poll"
    /\ bpCallback' = withCallback
    /\ UNCHANGED <<notBp, bpRemote, bpPolls, bpCalls, bpLast>>

\* The remote job changes its status.
BpRemoteStep(s) ==
    /\ sys = "bp"
    /\ s \in RemoteNext(bpRemote)
    /\ bpRemote' = s
    /\ UNCHANGED <<notBp, bpPc, bpCallback, bpPolls, bpCalls, bpLast>>

\* One iteration of "while True": get_batch_status retrieves the job (an
\* exception of the client leaves wait_for_completion), the callback is
\* invoked when one was given, and a job whose status is in the list is
\* returned; otherwise the loop sleeps.
BpPoll(ok) ==
    /\ sys = "bp"
    /\ bpPc = "poll"
    /\ bpPolls' = CountUp(bpPolls)
    /\ IF ok
       THEN /\ bpLast' = bpRemote
            /\ bpCalls' = IF bpCallback THEN CountUp(bpCalls) ELSE bpCalls
            /\ bpPc' = IF IsDone(bpRemote) THEN "returned" ELSE "sleep"
       ELSE /\ bpPc' = "raised"
            /\ UNCHANGED <<bpLast, bpCalls>>
    /\ UNCHANGED <<notBp, bpCallback, bpRemote>>

\* asyncio.sleep(poll_interval) is over.
BpSleep ==
    /\ sys = "bp"
    /\ bpPc = "sleep"
    /\ bpPc' = "poll"
    /\ UNCHANGED <<notBp, bpCallback, bpRemote, bpPolls, bpCalls, bpLast>>

BpNext ==
    \/ \E c \in BOOLEAN : BpWait(c)
    \/ \E s \in RemoteStatuses : BpRemoteStep(s)
    \/ \E ok \in BOOLEAN : BpPoll(ok)
    \/ BpSleep

\* ================================================================ system
Init ==
    /\ sys \in Systems
    /\ WpInit
    /\ MgrInit
    /\ EnInit
    /\ V2Init
    /\ GuiInit
    /\ StInit
    /\ VbInit
    /\ QgInit
    /\ UlInit
    /\ CaInit
    /\ BpInit

Next ==
    \/ WpNext
    \/ MgrNext
    \/ EnNext
    \/ V2Next
    \/ GuiNext
    \/ StNext
    \/ VbNext
    \/ QgNext
    \/ UlNext
    \/ CaNext
    \/ BpNext

Spec == Init /\ [][Next]_vars

\* One specification per program.
InitWp == Init /\ sys = "wp"

SpecWp == InitWp /\ [][WpNext]_vars

InitMgr == Init /\ sys = "mgr"

SpecMgr == InitMgr /\ [][MgrNext]_vars

InitEn == Init /\ sys = "en"

SpecEn == InitEn /\ [][EnNext]_vars

InitV2 == Init /\ sys = "v2"

SpecV2 == InitV2 /\ [][V2Next]_vars

InitGui == Init /\ sys = "gui"

SpecGui == InitGui /\ [][GuiNext]_vars

InitSt == Init /\ sys = "st"

SpecSt == InitSt /\ [][StNext]_vars

InitVb == Init /\ sys = "vb"

SpecVb == InitVb /\ [][VbNext]_vars

InitQg == Init /\ sys = "qg"

SpecQg == InitQg /\ [][QgNext]_vars

InitUl == Init /\ sys = "ul"

SpecUl == InitUl /\ [][UlNext]_vars

InitCa == Init /\ sys = "ca"

SpecCa == InitCa /\ [][CaNext]_vars

InitBp == Init /\ sys = "bp"

SpecBp == InitBp /\ [][BpNext]_vars

\* ================================================================ claims

\* C1 (concurrency bound): at every instant the number of backend calls in
\* flight is at most the configured limit: max_workers of DALLEAPIManager
\* under any interleaving of start() and stop(), num_workers of the
\* WorkerPool executor, max_concurrent of generate_stream.
ConcurrencyBound ==
    /\ Cardinality(mgrCalls) <= MgrWorkers
    /\ Cardinality(WpRunning) <= NumWorkers
    /\ Cardinality(StCalling) <= MaxConcurrent

\* The two pools whose limit is enforced by the executor and the semaphore.
PoolAndStreamBound ==
    /\ Cardinality(WpRunning) <= NumWorkers
    /\ Cardinality(StCalling) <= MaxConcurrent

\* C2 (no duplicate terminal resolution): over all runs of
\* process_tasks_async, the results handed to the caller hold at most one
\* terminal WorkerResult (COMPLETED or ERROR) for a task id.
NoDuplicateTerminal ==
    \A t \in Tasks : wpHanded[t].COMPLETED + wpHanded[t].ERROR <= 1

\* C3 (retry bound): when a run has returned without timing out and a task
\* whose processor fails on every execution has been reported as failed,
\* the task has been executed exactly max_retries + 1 times.
RetryBound ==
    (wpPc = "done" /\ ~wpTimeout) =>
        \A t \in Tasks :
            ( /\ wpKind[t] = "transient"
              /\ wpHanded[t].ERROR >= 1
              /\ wpHanded[t].COMPLETED = 0
              /\ WpExecs(t) # {}
              /\ \A i \in WpExecs(t) : wpFutures[i].res = "ERROR" )
            => Cardinality(WpExecs(t)) = MaxRetries + 1

\* C4 (non-retriable errors): a task whose failure is QuotaExhausted or
\* InvalidRequest is never re-submitted: its retry_count stays 0 and it is
\* executed at most once.
NonRetriableNotRetried ==
    \A t \in Tasks :
        wpKind[t] = "quota" =>
            /\ wpRetry[t] = 0
            /\ Cardinality(WpExecs(t)) <= 1

RECURSIVE SumAsked(_)
\* The sum of the n of the sub-calls made.
SumAsked(calls) ==
    IF calls = <<>> THEN 0 ELSE Head(calls).n + SumAsked(Tail(calls))

\* C5 (split completeness): when the batch loop of generate_image_batch
\* has ended, the sizes n of the sub-calls it made sum to num_images.
SplitCompleteness ==
    enPc = "done" => SumAsked(enCalls) = enN

\* C6 (split shape): when the batch loop has ended it has made
\* ceil(num_images / cap) sub-calls, every one but the last of size cap and
\* the last of size num_images - cap * (count - 1).
SplitShape ==
    enPc = "done" =>
        LET cap == MaxPerRequest(enModel)
            k == Len(enCalls)
        IN  /\ k = NumBatches(enN, cap)
            /\ \A i \in 1..k :
                 enCalls[i].n = IF i < k THEN cap ELSE enN - cap * (k - 1)

\* C7 (outcome ordering): the list generate_batch returns is in ascending
\* order of the prompts' submission index.
OutcomeOrdering ==
    v2Pc = "done" =>
        \A i, j \in 1..Len(v2Results) :
            i < j => v2Results[i].index < v2Results[j].index

\* Jobs of a batch thread that are neither completed nor failed.
GuiUnresolved(th) ==
    {k \in 1..Len(guiThreads[th].jobs) :
        guiJobs[guiThreads[th].jobs[k]] \notin {"completed", "failed"}}

\* C8 (cancellation drains cleanly): once a stopped batch has ended and the
\* UI queue is empty, every job of the batch is completed or failed; and a
\* request a cancelled worker loop had taken has, once its backend call is
\* over, had its callback invoked.
CancellationDrains ==
    /\ \A th \in Threads :
         ( /\ guiThreads[th].pc = "finished"
           /\ guiThreads[th].final = "Batch stopped"
           /\ guiUi = <<>> )
         => GuiUnresolved(th) = {}
    /\ \A l \in Loops :
         ( /\ mgrLoop[l].st = "cancelled"
           /\ mgrLoop[l].req # 0
           /\ mgrLoop[l].req \notin mgrCalls
           /\ mgrReq[mgrLoop[l].req] = "cb" )
         => mgrCb[mgrLoop[l].req] # <<>>

\* C9 (snapshot invariant): at any instant the counters of the pool add up
\* to the tasks submitted: completed_tasks (results returned, successful or
\* failed) + queued tasks + active tasks = total.
SnapshotInvariant ==
    wpCompleted + Len(wpQueue) + Cardinality(wpActive)
        = Cardinality(wpSubmitted)

\* C10 (failures never abort the batch): a failing sub-call does not stop
\* the others and loses nothing already obtained. The batch loop makes all
\* ceil(n / cap) sub-calls and all_images holds every image saved; a run of
\* process_tasks_async returns one result per future it submitted, the
\* successful ones as COMPLETED; the worker loops of a running manager stay
\* alive whatever the results were.
FailuresNeverAbort ==
    /\ enPc = "done" =>
         /\ Len(enCalls) = NumBatches(enN, MaxPerRequest(enModel))
         /\ Len(enAllImages) =
              SumAsked([i \in 1..Len(enCalls) |-> [n |-> enCalls[i].saved]])
    /\ wpPc = "done" =>
         /\ Len(wpResults) = Len(wpFutures) - wpRunStart
         /\ \A k \in 1..Len(wpResults) :
              /\ wpResults[k].task_id = wpFutures[wpRunStart + k].task
              /\ (wpFutures[wpRunStart + k].res = "COMPLETED"
                    /\ wpResults[k].error # "TimeoutError")
                 => wpResults[k].status = "COMPLETED"
    /\ mgrRunning => \A l \in MgrWorkerTasks : MgrLive(l)

\* C10's case: a batch loop that ended after a failed sub-call followed by
\* a successful one whose images were saved, with images saved before the
\* failure too.
FailuresNeverAbortWitness ==
    /\ enPc = "done"
    /\ \E i, j, k \in 1..Len(enCalls) :
         /\ i < j /\ j < k
         /\ enCalls[i].ok /\ enCalls[i].saved > 0
         /\ ~enCalls[j].ok
         /\ enCalls[k].ok /\ enCalls[k].saved > 0

\* C11 (invalid requests are rejected before dispatch): a batch command
\* given no prompts or a --concurrent <= 0 makes no backend call and never
\* ends with the summary of a normal run.
InvalidRequestRejected ==
    (vbPc # "idle" /\ (vbN = 0 \/ vbConcurrent <= 0)) =>
        /\ vbBackend = 0
        /\ vbOutcome # "summary"

\* C12 (partial-failure reporting): when quick_generate has ended, the
\* number of images it reports as generated is the number of image files
\* it saved.
PartialFailureReported ==
    qgPc = "done" => qgReported = Cardinality(qgSaved)

WpBatchTasks == {t \in Tasks : wpId[t] >= 0}

\* C14 (index uniqueness and ordering): the indices generate_stream gives
\* the N prompts and the ids gen_i BatchProcessor.generate_batch gives its N
\* tasks are exactly 0..N-1, without repeats, in prompt order; every result
\* carries the index (task id) of the sub-call that produced it, no index
\* is yielded twice, and a finished stream has yielded every index.
IndexUniqueness ==
    /\ {StreamIndex(p) : p \in 1..stN} = 0..(stN - 1)
    /\ \A p, q \in 1..stN : p < q => StreamIndex(p) < StreamIndex(q)
    /\ \A k \in 1..Len(stYielded) :
         stYielded[k].index = StreamIndex(stYielded[k].prompt)
    /\ \A k, m \in 1..Len(stYielded) :
         k # m => stYielded[k].index # stYielded[m].index
    /\ stPc = "done" =>
         {stYielded[k].index : k \in 1..Len(stYielded)} = 0..(stN - 1)
    /\ {wpId[t] : t \in WpBatchTasks} = 0..(Cardinality(WpBatchTasks) - 1)
    /\ \A t, u \in WpBatchTasks : t < u => wpId[t] < wpId[u]
    /\ \A k \in 1..Len(wpResults) :
         wpResults[k].task_id = wpFutures[wpRunStart + k].task

\* C14's case: a stream of several prompts has ended and yielded its
\* results out of prompt order.
IndexUniquenessWitness ==
    /\ stPc = "done"
    /\ Len(stYielded) >= 3
    /\ stYielded[1].index > stYielded[2].index

\* C15 (progress signal): progress is signalled for every sub-call as it
\* resolves: the counts given to generate_batch's progress_callback are
\* 1, 2, ... one per result and end at the number of prompts, and the
\* completed value of BatchProcessor.generate_batch's progress bar is the
\* number of results obtained so far.
ProgressSignal ==
    /\ v2Progress = [k \in 1..Len(v2Results) |-> k]
    /\ v2Pc = "done" => Len(v2Progress) = v2N
    /\ WpInGenerateBatch => wpProgress = Len(wpResults)

\* The part of C15 about the callback of ImageGenerator.generate_batch.
CallbackPerResult ==
    /\ v2Progress = [k \in 1..Len(v2Results) |-> k]
    /\ v2Pc = "done" => Len(v2Progress) = v2N

\* The copies of task t that wait on task_queue.
WpInQueue(t) == {k \in 1..Len(wpQueue) : wpQueue[k] = t}

\* The futures of task t that the executor still holds: waiting for a
\* thread, or inside _process_single_task.
WpInExecutor(t) == {i \in 1..Len(wpFutures) :
                      /\ wpFutures[i].task = t
                      /\ wpFutures[i].st \in {"queued", "running"}}

\* C16 (exclusive claim): no two executions of the sub-call with one id
\* overlap, and a re-queued sub-call is never a second copy on the queue or
\* in the executor next to the first: every task has at most one copy
\* among the queue and the unfinished futures of the pool, and every
\* request of the manager is in the hand of at most one worker loop.
ExclusiveClaim ==
    /\ \A t \in Tasks :
         Cardinality(WpInQueue(t)) + Cardinality(WpInExecutor(t)) <= 1
    /\ \A l1, l2 \in Loops :
         (/\ mgrLoop[l1].st = "calling"
          /\ mgrLoop[l2].st = "calling"
          /\ mgrLoop[l1].req = mgrLoop[l2].req) => l1 = l2

\* The pool's part of C16 for executions alone: no task is inside
\* _process_single_task on two threads at once.
NoOverlappingExecutions ==
    \A t \in Tasks :
        Cardinality({i \in WpRunning : wpFutures[i].task = t}) <= 1

\* The manager's part of C16.
MgrExclusiveClaim ==
    /\ \A l1, l2 \in Loops :
         (/\ mgrLoop[l1].st = "calling"
          /\ mgrLoop[l2].st = "calling"
          /\ mgrLoop[l1].req = mgrLoop[l2].req) => l1 = l2
    /\ \A r \in Reqs :
         Cardinality({k \in 1..Len(mgrQueue) : mgrQueue[k] = r}) +
         (IF r \in mgrCalls THEN 1 ELSE 0) <= 1

\* C17 (termination condition): absent cancellation,
\* process_tasks_async returns only once the task queue is empty and no
\* task is waiting for or running on a worker: at the step by which it
\* returns no re-queued task is on the queue and every future is done.
TerminationCondition ==
    [][ (wpPc = "wait" /\ wpPc' = "done" /\ ~wpShutdown) =>
            /\ wpQueue' = <<>>
            /\ \A i \in 1..Len(wpFutures') : wpFutures'[i].st = "done" ]_vars

\* The same without a timeout: only the re-queued task can be left.
TerminationWithoutTimeout ==
    [][ (wpPc = "wait" /\ wpPc' = "done" /\ ~wpShutdown /\ ~wpTimeout) =>
            wpQueue' = <<>> ]_vars

\* What does hold at the return when no timeout was given: the futures the
\* run submitted are done.
ReturnAwaitsOwnFutures ==
    [][ (wpPc = "wait" /\ wpPc' = "done" /\ ~wpTimeout) =>
            \A i \in (wpRunStart + 1)..Len(wpFutures') :
                wpFutures'[i].st = "done" ]_vars

\* C18 (re-enqueue at the back): a task re-queued after a failure is
\* placed behind every sub-call pending at that moment: whenever
\* _process_single_task puts a task on a queue that is not empty, the task
\* becomes the last element and the pending ones keep their places.
RequeueAtBack ==
    [][ \A i \in 1..Len(wpFutures) :
          (/\ wpFutures[i].st = "running"
           /\ wpFutures[i].res = "none"
           /\ wpFutures'[i].res = "ERROR"
           /\ wpRetry' # wpRetry) =>
              wpQueue' = Append(wpQueue, wpFutures[i].task) ]_vars

\* C19 (cooperative cancellation): the cancel flag is tested before each
\* new job is taken up, so a batch thread puts a request only with
\* batch_running set; a backend call in flight when stop() is requested is
\* left running; and when such a call, given a callback and still in the
\* hand of its worker loop, is over before stop() has returned, its result
\* is recorded by one more invocation of the callback.
CooperativeCancellation ==
    [][ /\ guiApiPut' # guiApiPut => guiRunning
        /\ (mgrRunning /\ ~mgrRunning') => mgrCalls' = mgrCalls
        /\ \A r \in Reqs :
             (/\ r \in mgrCalls
              /\ r \notin mgrCalls'
              /\ mgrStopping
              /\ mgrReq[r] = "cb"
              /\ \E l \in Loops : mgrLoop[l].req = r)
             => Len(mgrCb'[r]) = Len(mgrCb[r]) + 1 ]_vars

\* The parts of C19 that hold: the flag test before each job of the batch
\* thread, and stop() leaving the calls in flight alone.
FlagCheckedAndCallsLeftRunning ==
    [][ /\ guiApiPut' # guiApiPut => guiRunning
        /\ (mgrRunning /\ ~mgrRunning') => mgrCalls' = mgrCalls ]_vars

\* The size of sub-call number i when every sub-call before it returned
\* the images it was asked for.
FailureFreeSize(n, cap, i) == Min(n - cap * (i - 1), cap)

\* C20 (splitting is pure): the sizes of the sub-calls depend on
\* (num_images, cap) alone: whatever the earlier sub-calls did, sub-call
\* number i asks for the size that the run with the same (num_images, cap)
\* and no failure asks for at that position.
SplitPurity ==
    \A i \in 1..Len(enCalls) :
        enCalls[i].n = FailureFreeSize(enN, MaxPerRequest(enModel), i)

\* The sizes of the run in which no sub-call failed are the failure-free
\* ones: a run that departs from them differs from that run.
FailureFreeRunSizes ==
    (\A i \in 1..Len(enCalls) : enCalls[i].ok /\ enCalls[i].saved = enCalls[i].n)
        => \A i \in 1..Len(enCalls) :
              enCalls[i].n = FailureFreeSize(enN, MaxPerRequest(enModel), i)

\* C21 (backoff placement): in generate_single a delay precedes every retry
\* of a failed call and grows with the attempt number; the loop stops at
\* the first success, makes at most RETRY_ATTEMPTS backend calls, and
\* re-raises after the last failed attempt without a further delay.
BackoffPlacement ==
    /\ ulCalls <= RetryAttempts
    /\ \A k \in 1..Len(ulDelays) : ulDelays[k] >= 1
    /\ \A k \in 2..Len(ulDelays) : ulDelays[k] > ulDelays[k - 1]
    /\ ulPc = "try" => (ulCalls = ulAttempt /\ Len(ulDelays) = ulCalls)
    /\ ulPc = "sleep" => Len(ulDelays) = ulCalls - 1
    /\ ulPc = "returned" => Len(ulDelays) = ulCalls - 1
    /\ ulPc = "raised" =>
          (ulCalls = RetryAttempts /\ Len(ulDelays) = RetryAttempts - 1)

\* generate_single has failed RETRY_ATTEMPTS times and re-raised.
BackoffPlacementWitness ==
    /\ ulPc = "raised"
    /\ ulCalls = RetryAttempts
    /\ Len(ulDelays) = 2
    /\ ulDelays[2] > ulDelays[1]

\* C22 (retry decision from the classification): whenever show_error_help
\* has run, the class it showed is the one handle_error computes from the
\* message of the error, and it has returned True only for a message
\* classified rate_limit, network or unknown, never for invalid_size, quota
\* or api_key.
RetryDecision ==
    [][ (ulPc \in {"raised", "nokey"} /\ ulPc' # ulPc) =>
          /\ ulHelp'.class = HandleError(ulMsg)
          /\ ulHelp'.returned =>
                ulHelp'.class \in {"rate_limit", "network", "unknown"}
          /\ ulHelp'.class \in {"invalid_size", "quota", "api_key"} =>
                ~ulHelp'.returned ]_vars

\* The user accepted the retry offered for a rate-limit error and generate
\* runs again.
RetryDecisionWitness ==
    /\ ulHelp.class = "rate_limit"
    /\ ulHelp.returned
    /\ ulRuns = 2
    /\ ulPc = "try"

\* The scheduling of the manager: the event loop runs every worker loop
\* that can go on, and every call in an executor thread returns.
MgrFairness ==
    /\ \A l \in Loops : WF_vars(MgrLoopCheck(l))
    /\ \A l \in Loops : WF_vars(MgrLoopGet(l))
    /\ \A r \in Reqs : WF_vars(\E b \in BOOLEAN : MgrCallFinish(r, b))

SpecMgrFair == InitMgr /\ [][MgrNext]_vars /\ MgrFairness

\* The safety part of C23: no callback is invoked twice, no request
\* is on the queue or in a call twice, a request is not back on the queue
\* once taken, and a callback is invoked only for a request whose call is
\* over.
DeliveryAtMostOnce ==
    /\ \A r \in Reqs : Len(mgrCb[r]) <= 1
    /\ \A r \in Reqs : mgrReq[r] = "nocb" => mgrCb[r] = <<>>
    /\ \A r \in Reqs :
         Cardinality({k \in 1..Len(mgrQueue) : mgrQueue[k] = r})
           + Cardinality({l \in Loops : mgrLoop[l].st = "calling"
                                        /\ mgrLoop[l].req = r})
           + Len(mgrCb[r]) <= 1
    /\ \A r \in Reqs : (mgrCb[r] # <<>>) => r \notin mgrCalls

\* stop() has been called on a running manager: the loops it cancelled
\* stay cancelled.
MgrStopped == \E l \in Loops : mgrLoop[l].st = "cancelled"

\* Every request enqueued with a callback eventually has its callback
\* invoked, as long as the manager is running and has not been stopped.
DeliveryEventually ==
    \A r \in Reqs :
        (mgrReq[r] \in {"cb", "cb_raises"})
            ~> (Len(mgrCb[r]) = 1 \/ ~mgrRunning \/ MgrStopped)

SingleProcessing ==
    \A j \in Jobs :
        Cardinality({k \in 1..Len(guiApiPut) : guiApiPut[k] = j}) <= 1

\* C25 (GUI batch job outcome): every job taken up by
\* _process_batch_async ends completed or failed: once a batch thread has
\* finished and Tk has run every callback handed to it, each job the
\* thread took up has one of these two states.
JobOutcomeRecorded ==
    \A th \in Threads :
        (guiThreads[th].pc = "finished" /\ guiUi = <<>>) =>
            \A k \in 1..guiThreads[th].i :
                guiJobs[guiThreads[th].jobs[k]] \in {"completed", "failed"}

\* The same for a single batch that was never stopped.
JobOutcomeRecordedOneBatch ==
    (/\ guiThreads[1].pc = "finished"
     /\ guiThreads[1].final = "Batch completed"
     /\ guiThreads[2].pc = "none"
     /\ guiUi = <<>>) =>
        \A k \in 1..guiThreads[1].i :
            guiJobs[guiThreads[1].jobs[k]] \in {"completed", "failed"}

\* What the batch thread itself assigns to job.status is completed or
\* failed for every job it takes up.
ThreadAssignsOutcome ==
    [][ \A th \in Threads :
          guiThreads'[th].i > guiThreads[th].i =>
             guiJobs'[guiThreads'[th].job] \in {"completed", "failed"} ]_vars

\* C26 (prompt/result association in the batch command): every successful
\* result is attributed to the prompt that produced it: the file it is
\* saved to is named after that prompt.
PromptAttribution ==
    \A k \in 1..Len(vbAll) :
        vbAll[k].success => vbAll[k].named = vbAll[k].prompt

\* The chunks of the batch command, as far as the state shows them: the
\* requests in flight are at most `concurrent` and belong to the current
\* slice, the results of all earlier chunks are saved before a chunk is in
\* flight, and at the summary every prompt has exactly one result.
ChunkBarrierBody ==
    /\ vbPc = "chunk" =>
          /\ Cardinality(vbInFlight) <= vbConcurrent
          /\ Len(vbAll) = vbI
          /\ vbInFlight \cup {vbResults[j].prompt : j \in 1..Len(vbResults)}
                = Slice(vbI, vbConcurrent, vbN)
          /\ \A k \in 1..Len(vbAll) : vbAll[k].prompt <= vbI
    /\ vbOutcome = "summary" =>
          \A p \in 1..vbN :
              Cardinality({k \in 1..Len(vbAll) : vbAll[k].prompt = p}) = 1

\* C27 (chunk barrier in the batch command): the prompts are processed in
\* consecutive chunks of `concurrent` prompts, no request of a chunk is
\* started before every request of the chunk before it has resolved and
\* its images were saved, at most `concurrent` requests are in flight, and
\* every prompt of the file belongs to exactly one chunk.
ChunkBarrier == vbPc \in {"loop", "chunk", "done"} => ChunkBarrierBody

\* The same for a positive `concurrent`.
ChunkBarrierPositive ==
    (vbPc \in {"loop", "chunk", "done"} /\ vbConcurrent >= 1) =>
        ChunkBarrierBody

\* C28 (generation cache): a call returns from the cache only with caching
\* enabled and a stored, unexpired entry of its own key, whose content it
\* returns marked from_cache, without a backend call in that attempt; an
\* entry is written only by a successful backend call of a call for that
\* key; a failed backend call writes nothing, and without a fresh entry the
\* next attempt calls the backend again.
GenerationCache ==
    [][ /\ (caPc = "lookup" /\ caPc' = "idle") =>
              /\ caEnabled
              /\ caCache[caKey].st = "fresh"
              /\ caLast'.from_cache
              /\ caLast'.key = caKey
              /\ caLast'.val = caCache[caKey].val
              /\ caBackend' = caBackend
        /\ (caPc = "lookup" /\ caCache[caKey].st # "fresh") =>
              caPc' # "idle"
        /\ \A k \in CacheKeys :
              (caCache'[k] # caCache[k] /\ caCache'[k].st = "fresh") =>
                 /\ caPc = "backend"
                 /\ k = caKey
                 /\ caEnabled
                 /\ caLast'.how = "returned"
                 /\ ~caLast'.from_cache
                 /\ caCache'[k].val = caLast'.val
        /\ (caBackend' # caBackend /\ caLast'.how # "returned") =>
              caCache' = caCache ]_vars

\* A call was answered from the cache after an earlier call for the same
\* key had failed and a later one had succeeded.
GenerationCacheWitness ==
    /\ caPc = "idle"
    /\ caGens = 3
    /\ caLast.how = "returned"
    /\ caLast.from_cache
    /\ caLast.calls = 0
    /\ caBackend = StopAfterAttempt + 1
    /\ caCache[caLast.key] = [st |-> "fresh", val |-> caLast.val]

\* The scheduling of wait_for_completion: a poll that is due is made, the
\* sleep ends.
BpFairness ==
    /\ WF_vars(\E ok \in BOOLEAN : BpPoll(ok))
    /\ WF_vars(BpSleep)

SpecBpFair == InitBp /\ [][BpNext]_vars /\ BpFairness

\* C29 (batch-job polling terminates): once wait_for_completion has been
\* called and the remote job has reached a status it does not leave, the
\* call eventually ends.
PollingTerminates ==
    (bpPc # "idle" /\ bpRemote \in RemoteFinal)
        ~> (bpPc \in {"returned", "raised"})

\* The same for the three statuses the loop tests for.
PollingTerminatesWhenListed ==
    (bpPc # "idle" /\ IsDone(bpRemote))
        ~> (bpPc \in {"returned", "raised"})

\* The other parts of C29: the job returned is the one polled last and its
\* status is in the list, no job polled before it had such a status, and
\* the callback has been invoked once per successful poll, the last one
\* included.
PollingReturnsFirstFinal ==
    /\ bpPc = "returned" => IsDone(bpLast)
    /\ bpPc = "sleep" => ~IsDone(bpLast)
    /\ (bpCallback /\ bpPc \in {"poll", "sleep", "returned"}) =>
          bpCalls = bpPolls
    /\ ~bpCallback => bpCalls = 0

====
